---- MODULE Spec2Model ----
(***************************************************************************)
(* State-machine model of chesslab/ai/ai.py: static evaluation, terminal   *)
(* detection, move ordering, minimax, alpha-beta and the iterative         *)
(* deepening generator choose_move.                                        *)
(*                                                                         *)
(* The rules engine (Board) is an external collaborator of ai.py.  It is   *)
(* modelled here by a small board game played on a few squares of the 8x8  *)
(* board that offers exactly the interface ai.py uses: turn, enemy,        *)
(* piece_at, legal_moves, generate_pseudo_legal, clone, make, is_check,    *)
(* kings_pos and is_square_attacked.  Every piece steps to an orthogonally *)
(* adjacent square of the region and attacks the squares it can step to;   *)
(* a pawn stepping onto its last rank promotes to a queen.                 *)
(***************************************************************************)
EXTENDS Integers, Sequences, FiniteSets, TLC

\* ------------------------------------------------------------------------
\* Bounds of the model
\* ------------------------------------------------------------------------
\* Largest search depth handed to a root search or a value function.
MaxDepth == 4
\* Number of pieces on the board besides the two kings.
MaxExtra == 1
\* Number of deepening iterations of choose_move that are followed.
MaxIter == 3
\* Number of moves the caller applies to its board while a choose_move
\* generator is suspended.
MaxPlay == 1

\* ------------------------------------------------------------------------
\* Tables and numbers of ai.py
\* ------------------------------------------------------------------------
_PIECE_VALUE == [P |-> 100, N |-> 320, B |-> 330, R |-> 500, Q |-> 900, K |-> 0]
_MATE == 100000
\* ai.py sets 10**18.  _INF is only compared with scores, which are at most
\* _MATE in magnitude, so any number beyond _MATE behaves the same; this one
\* fits TLC's 32-bit integers.
_INF == 1000000000

PST_P ==
  << <<  0,   0,   0,   0,   0,   0,   0,   0>>,
     <<  5,  10,  10, -20, -20,  10,  10,   5>>,
     <<  5,  -5, -10,   0,   0, -10,  -5,   5>>,
     <<  0,   0,   0,  20,  20,   0,   0,   0>>,
     <<  5,   5,  10,  25,  25,  10,   5,   5>>,
     << 10,  10,  20,  30,  30,  20,  10,  10>>,
     << 50,  50,  50,  50,  50,  50,  50,  50>>,
     <<  0,   0,   0,   0,   0,   0,   0,   0>> >>

PST_N ==
  << <<-50, -40, -30, -30, -30, -30, -40, -50>>,
     <<-40, -20,   0,   0,   0,   0, -20, -40>>,
     <<-30,   0,  10,  15,  15,  10,   0, -30>>,
     <<-30,   5,  15,  20,  20,  15,   5, -30>>,
     <<-30,   0,  15,  20,  20,  15,   0, -30>>,
     <<-30,   5,  10,  15,  15,  10,   5, -30>>,
     <<-40, -20,   0,   5,   5,   0, -20, -40>>,
     <<-50, -40, -30, -30, -30, -30, -40, -50>> >>

PST_B ==
  << <<-20, -10, -10, -10, -10, -10, -10, -20>>,
     <<-10,   0,   0,   0,   0,   0,   0, -10>>,
     <<-10,   0,   5,  10,  10,   5,   0, -10>>,
     <<-10,   5,   5,  10,  10,   5,   5, -10>>,
     <<-10,   0,  10,  10,  10,  10,   0, -10>>,
     <<-10,  10,  10,  10,  10,  10,  10, -10>>,
     <<-10,   5,   0,   0,   0,   0,   5, -10>>,
     <<-20, -10, -10, -10, -10, -10, -10, -20>> >>

PST_R ==
  << <<  0,   0,   0,   5,   5,   0,   0,   0>>,
     << -5,   0,   0,   0,   0,   0,   0,  -5>>,
     << -5,   0,   0,   0,   0,   0,   0,  -5>>,
     << -5,   0,   0,   0,   0,   0,   0,  -5>>,
     << -5,   0,   0,   0,   0,   0,   0,  -5>>,
     << -5,   0,   0,   0,   0,   0,   0,  -5>>,
     <<  5,  10,  10,  10,  10,  10,  10,   5>>,
     <<  0,   0,   0,   0,   0,   0,   0,   0>> >>

PST_Q ==
  << <<-20, -10, -10,  -5,  -5, -10, -10, -20>>,
     <<-10,   0,   0,   0,   0,   0,   0, -10>>,
     <<-10,   0,   5,   5,   5,   5,   0, -10>>,
     << -5,   0,   5,   5,   5,   5,   0,  -5>>,
     <<  0,   0,   5,   5,   5,   5,   0,  -5>>,
     <<-10,   5,   5,   5,   5,   5,   0, -10>>,
     <<-10,   0,   5,   0,   0,   0,   0, -10>>,
     <<-20, -10, -10,  -5,  -5, -10, -10, -20>> >>

PST_K ==
  << << 20,  30,  10,   0,   0,  10,  30,  20>>,
     << 20,  20,   0,   0,   0,   0,  20,  20>>,
     <<-10, -20, -20, -20, -20, -20, -20, -10>>,
     <<-20, -30, -30, -40, -40, -30, -30, -20>>,
     <<-30, -40, -40, -50, -50, -40, -40, -30>>,
     <<-30, -40, -40, -50, -50, -40, -40, -30>>,
     <<-30, -40, -40, -50, -50, -40, -40, -30>>,
     <<-30, -40, -40, -50, -50, -40, -40, -30>> >>

_PST == [P |-> PST_P, N |-> PST_N, B |-> PST_B, R |-> PST_R, Q |-> PST_Q, K |-> PST_K]

\* ------------------------------------------------------------------------
\* Values
\* ------------------------------------------------------------------------
Sides == {"w", "b"}
Kinds == {"P", "N", "B", "R", "Q", "K"}
\* Python's None, as a promotion and as a move.
NoPromo == "None"
NoPiece == [color |-> "-", kind |-> "-"]
NoSquare == <<-1, -1>>
NoMove == [src |-> NoSquare, dst |-> NoSquare, promo |-> NoPromo]

\* A local variable: e is evaluated once and Body gets its value.
Bind(e, Body(_)) == CHOOSE y \in {Body(x) : x \in {e}} : TRUE

\* ------------------------------------------------------------------------
\* Board: the rules engine behind the interface ai.py calls
\* ------------------------------------------------------------------------
\* Squares in the order a scan of the board meets them (row by row).
RegionSeq == << <<0, 3>>, <<0, 4>>, <<1, 3>>, <<1, 4>>, <<2, 3>>, <<2, 4>> >>
Region == {RegionSeq[i] : i \in 1..Len(RegionSeq)}
Steps == << <<-1, 0>>, <<1, 0>>, <<0, -1>>, <<0, 1>> >>

enemy(side) == IF side = "w" THEN "b" ELSE "w"

piece_at(board, r, c) ==
  IF <<r, c>> \in Region THEN board.pieces[<<r, c>>] ELSE NoPiece

clone(board) == board

\* Board.make(move): (src, dst, promo) = move; the piece leaves src, lands
\* on dst (capturing what stands there), becomes promo when given, and the
\* turn passes.
make(board, mv) ==
  LET pc == board.pieces[mv.src]
      landed == IF mv.promo = NoPromo THEN pc
                ELSE [color |-> pc.color, kind |-> mv.promo]
  IN [turn |-> enemy(board.turn),
      pieces |-> [s \in Region |->
                    IF s = mv.src THEN NoPiece
                    ELSE IF s = mv.dst THEN landed
                    ELSE board.pieces[s]]]

kings_pos(board, side) ==
  LET ks == {s \in Region : board.pieces[s] = [color |-> side, kind |-> "K"]}
  IN IF ks = {} THEN NoSquare ELSE CHOOSE s \in ks : TRUE

StepFrom(sq, st) == <<sq[1] + st[1], sq[2] + st[2]>>

is_square_attacked(board, sq, bySide) ==
  \E i \in 1..Len(Steps) :
    /\ StepFrom(sq, Steps[i]) \in Region
    /\ board.pieces[StepFrom(sq, Steps[i])].color = bySide

is_check(board, side) ==
  /\ kings_pos(board, side) # NoSquare
  /\ is_square_attacked(board, kings_pos(board, side), enemy(side))

LastRank(side) == IF side = "w" THEN 0 ELSE 7

\* Board scan order: square by square, and for each square its steps.
Candidates ==
  [k \in 1..(Len(RegionSeq) * Len(Steps)) |->
     [sq |-> RegionSeq[((k - 1) \div Len(Steps)) + 1],
      st |-> Steps[((k - 1) % Len(Steps)) + 1]]]

\* The piece of the side to move on c.sq can step by c.st: the target is a
\* square of the region not held by a piece of its own colour.
CanStep(board, c) ==
  /\ board.pieces[c.sq].color = board.turn
  /\ StepFrom(c.sq, c.st) \in Region
  /\ board.pieces[StepFrom(c.sq, c.st)].color # board.turn

StepMove(board, c) ==
  LET dst == StepFrom(c.sq, c.st)
      pc == board.pieces[c.sq]
  IN [src |-> c.sq, dst |-> dst,
      promo |-> IF pc.kind = "P" /\ dst[1] = LastRank(pc.color)
                THEN "Q" ELSE NoPromo]

generate_pseudo_legal(board) ==
  LET cs == SelectSeq(Candidates, LAMBDA c : CanStep(board, c))
  IN [k \in 1..Len(cs) |-> StepMove(board, cs[k])]

\* The check-safety filter of Board.legal_moves(): the mover's king exists
\* after the move and is not attacked by the side now to move.
LeavesKingSafe(board, mv) ==
  Bind(make(clone(board), mv), LAMBDA b2 :
    Bind(kings_pos(b2, enemy(b2.turn)), LAMBDA king_pos :
      king_pos # NoSquare /\ ~is_square_attacked(b2, king_pos, b2.turn)))

legal_moves(board) ==
  SelectSeq(generate_pseudo_legal(board), LAMBDA mv : LeavesKingSafe(board, mv))

\* ------------------------------------------------------------------------
\* ai.py
\* ------------------------------------------------------------------------
_promo_of(move) == move.promo

\* ExportMove keeps src, dst and the promotion.
_export(move) ==
  IF move = NoMove THEN NoMove
  ELSE [src |-> move.src, dst |-> move.dst, promo |-> _promo_of(move)]

Max(a, b) == IF a >= b THEN a ELSE b
Min(a, b) == IF a <= b THEN a ELSE b

\* One square's contribution to evaluate (the body of the two loops).
EvalSquare(board, r, c) ==
  LET pc == piece_at(board, r, c)
  IN IF pc = NoPiece THEN 0
     ELSE LET base == _PIECE_VALUE[pc.kind]
              pst == _PST[pc.kind]
          IN IF pc.color = "w" THEN base + pst[(7 - r) + 1][c + 1]
             ELSE 0 - (base + pst[r + 1][c + 1])

\* for c in range(8), in row r.
EvalRow(board, r) ==
  EvalSquare(board, r, 0) + EvalSquare(board, r, 1) + EvalSquare(board, r, 2)
  + EvalSquare(board, r, 3) + EvalSquare(board, r, 4) + EvalSquare(board, r, 5)
  + EvalSquare(board, r, 6) + EvalSquare(board, r, 7)

evaluate(board) ==
  EvalRow(board, 0) + EvalRow(board, 1) + EvalRow(board, 2) + EvalRow(board, 3)
  + EvalRow(board, 4) + EvalRow(board, 5) + EvalRow(board, 6) + EvalRow(board, 7)
  + (IF is_check(board, "b") THEN 30 ELSE 0)
  - (IF is_check(board, "w") THEN 30 ELSE 0)

_terminal_score_ForMover(board) ==
  IF is_check(board, board.turn)
  THEN LET winner == board.turn
       IN IF winner = "w" THEN _MATE ELSE 0 - _MATE
  ELSE 0
_terminal_score(board) ==
  IF is_check(board, board.turn)
  THEN LET winner == enemy(board.turn)
       IN IF winner = "w" THEN _MATE ELSE 0 - _MATE
  ELSE 0

\* The loop returns True at the first pseudo-legal move that leaves the
\* mover's king on the board and unattacked, and False when there is none.
_has_any_legal_move(board) ==
  Bind(generate_pseudo_legal(board), LAMBDA pseudo :
    \E i \in 1..Len(pseudo) :
      Bind(make(clone(board), pseudo[i]), LAMBDA b2 :
        Bind(kings_pos(b2, enemy(b2.turn)), LAMBDA king_pos :
          king_pos # NoSquare /\ ~is_square_attacked(b2, king_pos, b2.turn))))

\* key(mv) of _order_moves: (1 if promo else 0, captured value).
OrderKey(board, mv) ==
  LET promo == _promo_of(mv)
      tgt == piece_at(board, mv.dst[1], mv.dst[2])
      cap == IF tgt # NoPiece THEN _PIECE_VALUE[tgt.kind] ELSE 0
  IN <<IF promo # NoPromo THEN 1 ELSE 0, cap>>

\* Tuple comparison k1 > k2.
KeyGreater(k1, k2) == k1[1] > k2[1] \/ (k1[1] = k2[1] /\ k1[2] > k2[2])

\* sorted(moves, key=key, reverse=True) is stable: a move stands behind
\* every move with a greater key and behind the moves with an equal key that
\* precede it in the input.  Rank(i) is the place that puts moves[i] at.
Rank(board, moves, i) ==
  1 + Cardinality({j \in 1..Len(moves) :
        \/ KeyGreater(OrderKey(board, moves[j]), OrderKey(board, moves[i]))
        \/ (OrderKey(board, moves[j]) = OrderKey(board, moves[i]) /\ j < i)})

_order_moves(board, moves) ==
  [p \in 1..Len(moves) |->
     moves[CHOOSE i \in 1..Len(moves) : Rank(board, moves, i) = p]]

\* pv_hint is a (src, dst, promo) tuple or None (NoMove here).
HintMatches(mv, pv_hint) ==
  mv.src = pv_hint.src /\ mv.dst = pv_hint.dst /\ _promo_of(mv) = pv_hint.promo

\* The loop stops at the first index whose move matches the hint.
_with_pv_hint_KeepsCopy(moves, pv_hint) ==
  IF pv_hint = NoMove THEN moves
  ELSE LET hits == {i \in 1..Len(moves) : HintMatches(moves[i], pv_hint)}
       IN IF hits = {} THEN moves
          ELSE LET i == CHOOSE h \in hits : \A g \in hits : h <= g
               IN IF i = 1 THEN moves
                  ELSE <<moves[i]>> \o SubSeq(moves, 1, i - 1)
                                    \o SubSeq(moves, i, Len(moves))
_with_pv_hint(moves, pv_hint) ==
  IF pv_hint = NoMove THEN moves
  ELSE LET hits == {i \in 1..Len(moves) : HintMatches(moves[i], pv_hint)}
       IN IF hits = {} THEN moves
          ELSE LET i == CHOOSE h \in hits : \A g \in hits : h <= g
               IN IF i = 1 THEN moves
                  ELSE <<moves[i]>> \o SubSeq(moves, 1, i - 1)
                                    \o SubSeq(moves, i + 1, Len(moves))

\* ------------------------------------------------------------------------
\* Minimax and alpha-beta
\* ------------------------------------------------------------------------
\* A value-function call yields val, the value it returns; nodes, what the
\* call and the calls below it add to the shared counter nodes[0]; and rec,
\* the number of recursive calls made below it.

\* The depth test "if depth <= 0" of both value functions.
AtHorizon_StrictlyBelow(depth) == depth < 0
AtHorizon(depth) == depth <= 0

\* The leaf branch: terminal score without a legal move, evaluate otherwise.
\* nodes[0] += 1 at function entry is the only count of the call.
Leaf_CountedTwice(board) ==
  [val |-> IF ~_has_any_legal_move(board) THEN _terminal_score(board)
           ELSE evaluate(board),
   nodes |-> 2, rec |-> 0]
Leaf(board) ==
  [val |-> IF ~_has_any_legal_move(board) THEN _terminal_score(board)
           ELSE evaluate(board),
   nodes |-> 1, rec |-> 0]

\* "if not moves: return _terminal_score(board)" at depth > 0.
Terminal(board) == [val |-> _terminal_score(board), nodes |-> 1, rec |-> 0]

\* best = -_INF for White, _INF for Black.
WorstFor(side) == IF side = "w" THEN 0 - _INF ELSE _INF

\* max(best, v) for White, min(best, v) for Black.
Fold(side, best, v) == IF side = "w" THEN Max(best, v) ELSE Min(best, v)

RECURSIVE _minimax_value(_, _), MinimaxLoop(_, _, _, _, _)

\* The for-loops of _minimax_value; acc carries best and the counters.
MinimaxLoop(board, depth, moves, i, acc) ==
  IF i > Len(moves) THEN acc
  ELSE Bind(make(clone(board), moves[i]), LAMBDA b2 :
       Bind(_minimax_value(b2, depth - 1), LAMBDA sub :
       Bind([val |-> Fold(board.turn, acc.val, sub.val),
             nodes |-> acc.nodes + sub.nodes,
             rec |-> acc.rec + 1 + sub.rec], LAMBDA next :
         MinimaxLoop(board, depth, moves, i + 1, next))))

_minimax_value(board, depth) ==
  IF AtHorizon(depth) THEN Leaf(board)
  ELSE Bind(legal_moves(board), LAMBDA moves :
         IF moves = <<>> THEN Terminal(board)
         ELSE MinimaxLoop(board, depth, moves, 1,
                [val |-> WorstFor(board.turn), nodes |-> 1, rec |-> 0]))

\* The root's strict comparison: v > best_val for White, v < best_val for
\* Black.
Better_OrEqual(side, v, best_val) ==
  IF side = "w" THEN v >= best_val ELSE v <= best_val
Better(side, v, best_val) == IF side = "w" THEN v > best_val ELSE v < best_val

RECURSIVE MinimaxRootLoop(_, _, _, _, _)
MinimaxRootLoop(board, depth, legal, i, acc) ==
  IF i > Len(legal) THEN acc
  ELSE Bind(make(clone(board), legal[i]), LAMBDA b2 :
       Bind(_minimax_value(b2, depth - 1), LAMBDA sub :
       Bind(\/ acc.best_move = NoMove
            \/ Better(board.turn, sub.val, acc.best_val), LAMBDA take :
       Bind([best_move |-> IF take THEN legal[i] ELSE acc.best_move,
             best_val |-> IF take THEN sub.val ELSE acc.best_val,
             nodes |-> acc.nodes + sub.nodes,
             rec |-> acc.rec + 1 + sub.rec], LAMBDA next :
         MinimaxRootLoop(board, depth, legal, i + 1, next)))))

\* What a root search gives back without a legal move: (None, 0), and
\* metrics["nodes"] = 0.
NoLegalResult_CountsRoot ==
  [move |-> NoMove, nodes |-> 1, metrics |-> [nodes |-> 1],
   best_val |-> 0, rec |-> 0]
NoLegalResult ==
  [move |-> NoMove, nodes |-> 0, metrics |-> [nodes |-> 0],
   best_val |-> 0, rec |-> 0]

\* choose_minimax_move: move and nodes are the returned pair, metrics the
\* mapping after the call, best_val the local of that name, rec the number
\* of value-function calls made.
choose_minimax_move(board, depth) ==
  Bind(legal_moves(board), LAMBDA legal :
    IF legal = <<>> THEN NoLegalResult
    ELSE Bind(MinimaxRootLoop(board, depth, legal, 1,
                [best_move |-> NoMove, best_val |-> WorstFor(board.turn),
                 nodes |-> 0, rec |-> 0]), LAMBDA r :
           [move |-> _export(r.best_move), nodes |-> r.nodes,
            metrics |-> [nodes |-> r.nodes],
            best_val |-> r.best_val, rec |-> r.rec]))

\* The pruning test "if alpha >= beta: break".
Cutoff_Inverted(alpha, beta) == alpha <= beta
Cutoff(alpha, beta) == alpha >= beta

RECURSIVE _alphabeta_value(_, _, _, _), AlphabetaLoop(_, _, _, _, _)

\* The for-loops of _alphabeta_value with their break; acc carries v, alpha,
\* beta and the counters.
AlphabetaLoop(board, depth, moves, i, acc) ==
  IF i > Len(moves) THEN acc
  ELSE Bind(make(clone(board), moves[i]), LAMBDA b2 :
       Bind(_alphabeta_value(b2, depth - 1, acc.alpha, acc.beta), LAMBDA sub :
       Bind(Fold(board.turn, acc.val, sub.val), LAMBDA v :
       Bind([val |-> v,
             alpha |-> IF board.turn = "w" THEN Max(acc.alpha, v) ELSE acc.alpha,
             beta |-> IF board.turn = "w" THEN acc.beta ELSE Min(acc.beta, v),
             nodes |-> acc.nodes + sub.nodes,
             rec |-> acc.rec + 1 + sub.rec], LAMBDA next :
         IF Cutoff(next.alpha, next.beta) THEN next
         ELSE AlphabetaLoop(board, depth, moves, i + 1, next)))))

_alphabeta_value(board, depth, alpha, beta) ==
  IF AtHorizon(depth) THEN Leaf(board)
  ELSE Bind(legal_moves(board), LAMBDA legal :
         IF legal = <<>> THEN Terminal(board)
         ELSE Bind(_order_moves(board, legal), LAMBDA moves :
              Bind(AlphabetaLoop(board, depth, moves, 1,
                     [val |-> WorstFor(board.turn),
                      alpha |-> alpha, beta |-> beta,
                      nodes |-> 1, rec |-> 0]), LAMBDA r :
                [val |-> r.val, nodes |-> r.nodes, rec |-> r.rec])))

RECURSIVE AlphabetaRootLoop(_, _, _, _, _)
AlphabetaRootLoop(board, depth, moves, i, acc) ==
  IF i > Len(moves) THEN acc
  ELSE Bind(make(clone(board), moves[i]), LAMBDA b2 :
       Bind(_alphabeta_value(b2, depth - 1, acc.alpha, acc.beta), LAMBDA sub :
       Bind(\/ acc.best_move = NoMove
            \/ Better(board.turn, sub.val, acc.best_val), LAMBDA take :
       Bind(IF take THEN sub.val ELSE acc.best_val, LAMBDA best_val :
       Bind([best_move |-> IF take THEN moves[i] ELSE acc.best_move,
             best_val |-> best_val,
             alpha |-> IF board.turn = "w" THEN Max(acc.alpha, best_val)
                       ELSE acc.alpha,
             beta |-> IF board.turn = "w" THEN acc.beta
                      ELSE Min(acc.beta, best_val),
             nodes |-> acc.nodes + sub.nodes,
             rec |-> acc.rec + 1 + sub.rec], LAMBDA next :
         AlphabetaRootLoop(board, depth, moves, i + 1, next))))))

\* _alphabeta_root returns (best_move, best_val, nodes[0]); rec is the
\* number of value-function calls made.
_alphabeta_root(board, depth, pv_hint) ==
  Bind(legal_moves(board), LAMBDA legal :
    IF legal = <<>>
    THEN [best_move |-> NoMove, best_val |-> 0, nodes |-> 0, rec |-> 0]
    ELSE Bind(_order_moves(board, legal), LAMBDA ordered :
         Bind(_with_pv_hint(ordered, pv_hint), LAMBDA moves :
         Bind(AlphabetaRootLoop(board, depth, moves, 1,
                [best_move |-> NoMove, best_val |-> WorstFor(board.turn),
                 alpha |-> 0 - _INF, beta |-> _INF,
                 nodes |-> 0, rec |-> 0]), LAMBDA r :
           [best_move |-> r.best_move, best_val |-> r.best_val,
            nodes |-> r.nodes, rec |-> r.rec]))))

choose_alphabeta_move(board, depth) ==
  Bind(_alphabeta_root(board, depth, NoMove), LAMBDA r :
    [move |-> _export(r.best_move), nodes |-> r.nodes,
     metrics |-> [nodes |-> r.nodes], best_val |-> r.best_val,
     rec |-> r.rec])

\* ------------------------------------------------------------------------
\* choose_move, the iterative-deepening generator
\* ------------------------------------------------------------------------
\* The generator's frame: pc is where it stands ("new" before the first
\* next(), "yield" suspended at a yield, "loop" after a continue, "done"
\* when it has returned), out and pv_hint and depth its locals.  yields
\* lists what it has yielded, iters what each completed depth was given and
\* found, searches and nodes count the _alphabeta_root calls and the nodes
\* they visited.
NewGen ==
  [pc |-> "new", depth |-> 0, out |-> NoMove, pv_hint |-> NoMove,
   yields |-> <<>>, iters |-> <<>>, searches |-> 0, nodes |-> 0]

\* From the call to the first yield (or to the return without one).
ChooseMoveStart_Unordered(b, g) ==
  Bind(legal_moves(b), LAMBDA legal :
    IF legal = <<>> THEN [g EXCEPT !.pc = "done"]
    ELSE Bind(_export(legal[1]), LAMBDA out :
           [g EXCEPT !.pc = "yield", !.out = out, !.yields = <<out>>]))
ChooseMoveStart(b, g) ==
  Bind(legal_moves(b), LAMBDA legal :
    IF legal = <<>> THEN [g EXCEPT !.pc = "done"]
    ELSE Bind(_order_moves(b, legal)[1], LAMBDA quick :
         Bind(_export(quick), LAMBDA out :
           [g EXCEPT !.pc = "yield", !.out = out, !.yields = <<out>>])))

\* The header of the deepening loop: depths 1, 2, 3, ... without end.
NextDepth(depth) == depth + 1

\* The hint the next depth is given: (out.src, out.dst, _promo_of(out))
\* after a yield, the hint as it was after a continue.
HintAfter_NeverUpdated(g) == IF g.iters = <<>> THEN g.out ELSE g.pv_hint
HintAfter(g) ==
  IF g.pc = "yield"
  THEN [src |-> g.out.src, dst |-> g.out.dst, promo |-> _promo_of(g.out)]
  ELSE g.pv_hint

\* One pass of the loop body, from where the generator stands to its next
\* yield or continue.
ChooseMoveIterate(b, g) ==
  Bind(HintAfter(g), LAMBDA pv_hint :
  Bind(NextDepth(g.depth), LAMBDA depth :
  Bind(_alphabeta_root(b, depth, pv_hint), LAMBDA r :
  Bind([g EXCEPT !.depth = depth, !.pv_hint = pv_hint,
                 !.iters = Append(@, [depth |-> depth, hint |-> pv_hint,
                                      best |-> r.best_move]),
                 !.searches = @ + 1, !.nodes = @ + r.nodes], LAMBDA ran :
    IF r.best_move = NoMove THEN [ran EXCEPT !.pc = "loop"]
    ELSE Bind(_export(r.best_move), LAMBDA out :
           [ran EXCEPT !.pc = "yield", !.out = out,
                       !.yields = Append(@, out)])))))

\* ------------------------------------------------------------------------
\* Positions the searches are called on
\* ------------------------------------------------------------------------
WhiteKing == [color |-> "w", kind |-> "K"]
BlackKing == [color |-> "b", kind |-> "K"]
ExtraPieces == {[color |-> "w", kind |-> "P"], [color |-> "w", kind |-> "R"],
                [color |-> "b", kind |-> "P"], [color |-> "b", kind |-> "Q"]}

Holding(pieces, ps) == {s \in Region : pieces[s] \in ps}

\* One king each and at most MaxExtra further pieces.
Layouts ==
  {pieces \in [Region -> ExtraPieces \cup {NoPiece, WhiteKing, BlackKing}] :
     /\ Cardinality(Holding(pieces, {WhiteKing})) = 1
     /\ Cardinality(Holding(pieces, {BlackKing})) = 1
     /\ Cardinality(Holding(pieces, ExtraPieces)) <= MaxExtra}

\* The side that has just moved has not left its king attacked.
Boards ==
  {b \in [turn : Sides, pieces : Layouts] : ~is_check(b, enemy(b.turn))}

\* ------------------------------------------------------------------------
\* State
\* ------------------------------------------------------------------------
\* board   the caller's position
\* mm, ab  what the calls of choose_minimax_move and choose_alphabeta_move
\*         made so far on board returned, one entry per call
\* ret     what the last call of a value function or of the move orderer
\*         returned, until the caller has taken it
\* gen     the choose_move generator the caller holds
\* plays   the moves the caller has applied to board since gen was made
VARIABLES board, mm, ab, ret, gen, plays

vars == <<board, mm, ab, ret, gen, plays>>

Idle == [op |-> "idle"]

Init ==
  /\ board \in Boards
  /\ mm = <<>>
  /\ ab = <<>>
  /\ ret = Idle
  /\ gen = NewGen
  /\ plays = 0

\* The caller deepens: its k-th call of a root search asks for depth
\* DepthOf(k), from a depth below zero up to MaxDepth.  It compares the two
\* searches depth by depth, in either order: neither search is called for a
\* depth before the other has returned for every shallower one.
DepthOf(k) == k - 2
NumDepths == MaxDepth + 2

CallMinimax ==
  /\ Len(mm) < NumDepths
  /\ Len(mm) <= Len(ab)
  /\ mm' = Append(mm, choose_minimax_move(board, DepthOf(Len(mm) + 1)))
  /\ UNCHANGED <<board, ab, ret, gen, plays>>

CallAlphabeta ==
  /\ Len(ab) < NumDepths
  /\ Len(ab) <= Len(mm)
  /\ ab' = Append(ab, choose_alphabeta_move(board, DepthOf(Len(ab) + 1)))
  /\ UNCHANGED <<board, mm, ret, gen, plays>>

NextSearch == CallMinimax \/ CallAlphabeta

SpecSearch == Init /\ [][NextSearch]_vars

\* Windows a value function is called with.
WindowEnds == {0 - _INF, 0 - 30, 30, _INF}
Windows == {w \in WindowEnds \X WindowEnds : w[1] < w[2]}

CallMinimaxValue(d) ==
  /\ ret = Idle
  /\ ret' = [op |-> "minimax_value", depth |-> d,
             res |-> _minimax_value(board, d)]
  /\ UNCHANGED <<board, mm, ab, gen, plays>>

CallAlphabetaValue(d, w) ==
  /\ ret = Idle
  /\ ret' = [op |-> "alphabeta_value", depth |-> d, alpha |-> w[1],
             beta |-> w[2], res |-> _alphabeta_value(board, d, w[1], w[2])]
  /\ UNCHANGED <<board, mm, ab, gen, plays>>

\* The caller takes the returned value.
Return ==
  /\ ret # Idle
  /\ ret' = Idle
  /\ UNCHANGED <<board, mm, ab, gen, plays>>

NextValue ==
  \/ \E d \in (0 - 1)..MaxDepth : CallMinimaxValue(d)
  \/ \E d \in (0 - 1)..MaxDepth : \E w \in Windows : CallAlphabetaValue(d, w)
  \/ Return

SpecValue == Init /\ [][NextValue]_vars

\* Move lists handed to the orderer: the legal moves, the pseudo-legal
\* moves, and a list that holds every legal move twice.
MoveLists(b) ==
  {legal_moves(b), generate_pseudo_legal(b), legal_moves(b) \o legal_moves(b)}

OtherPromo(mv) == [mv EXCEPT !.promo = IF @ = NoPromo THEN "Q" ELSE NoPromo]

\* Hints: None, every move of the list, and for every move of the list the
\* move between the same squares with the other promotion.
Hints(moves) ==
  {NoMove} \cup {moves[i] : i \in 1..Len(moves)}
           \cup {OtherPromo(moves[i]) : i \in 1..Len(moves)}

CallOrder(moves, pv_hint) ==
  /\ ret = Idle
  /\ ret' = [op |-> "order", moves |-> moves, pv_hint |-> pv_hint,
             ordered |-> _order_moves(board, moves),
             hinted |-> _with_pv_hint(_order_moves(board, moves), pv_hint)]
  /\ UNCHANGED <<board, mm, ab, gen, plays>>

NextOrder ==
  \/ \E moves \in MoveLists(board) : \E h \in Hints(moves) : CallOrder(moves, h)
  \/ Return

SpecOrder == Init /\ [][NextOrder]_vars

\* next(gen) on a generator that has not run yet.
GenStart ==
  /\ gen.pc = "new"
  /\ gen' = ChooseMoveStart(board, gen)
  /\ UNCHANGED <<board, mm, ab, ret, plays>>

\* The generator runs one depth: resumed by next(gen) at a yield, or going
\* round the loop after a continue.  The caller's ceiling is MaxIter depths.
GenIterate ==
  /\ gen.pc \in {"yield", "loop"}
  /\ gen.depth < MaxIter
  /\ gen' = ChooseMoveIterate(board, gen)
  /\ UNCHANGED <<board, mm, ab, ret, plays>>

\* The caller applies a legal move to its board while the generator is
\* suspended at a yield.
Play(i) ==
  /\ gen.pc = "yield"
  /\ plays < MaxPlay
  /\ i \in 1..Len(legal_moves(board))
  /\ board' = make(board, legal_moves(board)[i])
  /\ plays' = plays + 1
  /\ UNCHANGED <<mm, ab, ret, gen>>

NextGen ==
  \/ GenStart
  \/ GenIterate
  \/ \E i \in 1..(Len(RegionSeq) * Len(Steps)) : Play(i)

SpecGen == Init /\ [][NextGen]_vars

\* ------------------------------------------------------------------------
\* Properties
\* ------------------------------------------------------------------------
HasLegal == legal_moves(board) # <<>>
AllDepthsRun == Len(mm) = NumDepths /\ Len(ab) = NumDepths
\* The calls both searches have made at the same depth.
Paired == 1..Min(Len(mm), Len(ab))

\* C1: on a position with a legal move and at every depth >= 1, the best
\* value of the alpha-beta root search equals the best value of the minimax
\* root search.
C1_SameBestValue ==
  HasLegal =>
    \A k \in Paired : DepthOf(k) >= 1 => ab[k].best_val = mm[k].best_val

\* Both searches have run at every depth and alpha-beta has pruned.
C1_Witness ==
  /\ HasLegal
  /\ AllDepthsRun
  /\ ab[NumDepths].nodes < mm[NumDepths].nodes

\* The minimax value of the position a root move leads to, at the depth the
\* root search gives it.
RootValue(mv, depth) == _minimax_value(make(clone(board), mv), depth - 1).val

\* v is at least as good as w for the side to move.
AsGoodAs(v, w) == IF board.turn = "w" THEN v >= w ELSE v <= w

\* The places of the moves of best value in the list; val gives each
\* move's value.
BestPlaces(moves, val) ==
  {i \in 1..Len(moves) :
     \A j \in 1..Len(moves) : AsGoodAs(val[moves[i]], val[moves[j]])}

FirstBest(moves, val) ==
  moves[CHOOSE i \in BestPlaces(moves, val) :
          \A j \in BestPlaces(moves, val) : i <= j]

\* The root value of every legal move at the given depth.
RootValues(depth) ==
  [mv \in {legal_moves(board)[i] : i \in 1..Len(legal_moves(board))} |->
     RootValue(mv, depth)]

\* C2 as stated: on a position with a legal move and at every depth >= 1,
\* choose_alphabeta_move returns the move choose_minimax_move returns.
C2_SameMove ==
  HasLegal =>
    \A k \in Paired : DepthOf(k) >= 1 => ab[k].move = mm[k].move

\* C2 amended: at every depth >= 1 alpha-beta returns the first move of best
\* minimax value in the order _order_moves gives the legal moves, minimax
\* the first such move in legal_moves order; the two are the same move when
\* only one legal move has the best value.
C2_FirstBestInOwnOrder ==
  HasLegal /\ Len(mm) = Len(ab) /\ DepthOf(Len(mm)) >= 1 =>
    LET k == Len(mm)
        legal == legal_moves(board)
        val == RootValues(DepthOf(k))
    IN /\ mm[k].move = _export(FirstBest(legal, val))
       /\ ab[k].move = _export(FirstBest(_order_moves(board, legal), val))
       /\ Cardinality(BestPlaces(legal, val)) = 1 => ab[k].move = mm[k].move

\* Several moves share the best value and the two searches return
\* different ones.
C2_Witness ==
  /\ HasLegal
  /\ \E k \in Paired :
       /\ DepthOf(k) >= 1
       /\ ab[k].move # mm[k].move
       /\ Cardinality(BestPlaces(legal_moves(board), RootValues(DepthOf(k)))) > 1

\* C3: with a legal move the generator's first yield is the head of
\* _order_moves(board, legal), a legal move, made before any search; with
\* none the generator yields nothing and finishes.
C3_FirstYield ==
  /\ gen.pc = "done" => gen.yields = <<>> /\ gen.searches = 0 /\ ~HasLegal
  /\ (gen.pc # "new" /\ plays = 0 /\ ~HasLegal) =>
       gen.pc = "done" /\ gen.yields = <<>>
  /\ (gen.pc # "new" /\ plays = 0 /\ HasLegal) =>
       /\ Len(gen.yields) >= 1
       /\ gen.yields[1] = _export(_order_moves(board, legal_moves(board))[1])
       /\ \E i \in 1..Len(legal_moves(board)) :
            gen.yields[1] = _export(legal_moves(board)[i])
  /\ (gen.pc = "yield" /\ gen.iters = <<>>) =>
       Len(gen.yields) = 1 /\ gen.searches = 0 /\ gen.nodes = 0

\* The generator stands at its first yield, and ordering has put another
\* move than the first legal one in front.
C3_Witness ==
  /\ gen.pc = "yield"
  /\ gen.iters = <<>>
  /\ plays = 0
  /\ gen.yields[1] # _export(legal_moves(board)[1])

\* C4: without a legal move at the root both root searches, at every depth,
\* return a null move and node count 0, call no value function and store 0
\* under "nodes" in metrics.
C4_NoLegalMove ==
  ~HasLegal =>
    /\ \A k \in 1..Len(mm) :
         /\ mm[k].move = NoMove
         /\ mm[k].nodes = 0
         /\ mm[k].rec = 0
         /\ mm[k].metrics.nodes = 0
    /\ \A k \in 1..Len(ab) :
         /\ ab[k].move = NoMove
         /\ ab[k].nodes = 0
         /\ ab[k].rec = 0
         /\ ab[k].metrics.nodes = 0

C4_Witness == ~HasLegal /\ AllDepthsRun

ValueCall == ret.op \in {"minimax_value", "alphabeta_value"}

\* C5: on a position without a legal move both value functions return, at
\* every depth, -_MATE when White is to move and in check, +_MATE when
\* Black is to move and in check, and 0 when the side to move is not in
\* check.
C5_TerminalScore ==
  ValueCall /\ ~HasLegal =>
    ret.res.val = IF is_check(board, board.turn)
                  THEN (IF board.turn = "w" THEN 0 - _MATE ELSE _MATE)
                  ELSE 0

\* A value function has returned from a mated position above the horizon.
C5_Witness ==
  /\ ValueCall
  /\ ~HasLegal
  /\ ret.depth > 0
  /\ is_check(board, board.turn)

\* C6: a value-function call with depth <= 0 on a position with a legal
\* move returns evaluate(position), makes no recursive call and adds 1 to
\* the node counter.
C6_LeafCall ==
  ValueCall /\ ret.depth <= 0 /\ HasLegal =>
    /\ ret.res.val = evaluate(board)
    /\ ret.res.rec = 0
    /\ ret.res.nodes = 1

C6_Witness ==
  /\ ret.op = "alphabeta_value"
  /\ ret.depth = 0
  /\ HasLegal
  /\ ret.res.val # 0

\* C7 as stated: for depths 1 <= d1 <= d2 the node count of
\* choose_minimax_move at d1 is at most the one at d2, and likewise for
\* choose_alphabeta_move.
C7_NodesMonotone ==
  /\ \A i, j \in 1..Len(mm) :
       DepthOf(i) >= 1 /\ i <= j => mm[i].nodes <= mm[j].nodes
  /\ \A i, j \in 1..Len(ab) :
       DepthOf(i) >= 1 /\ i <= j => ab[i].nodes <= ab[j].nodes

\* C7 amended: the node count of choose_minimax_move never falls as the
\* depth grows; the node count of choose_alphabeta_move at depth 1 is at
\* most its node count at every greater depth.
C7_MinimaxMonotone ==
  /\ \A i, j \in 1..Len(mm) :
       DepthOf(i) >= 1 /\ i <= j => mm[i].nodes <= mm[j].nodes
  /\ \A i, j \in 1..Len(ab) :
       DepthOf(i) = 1 /\ i <= j => ab[i].nodes <= ab[j].nodes

\* Alpha-beta has visited fewer nodes at a greater depth.
C7_Witness ==
  /\ AllDepthsRun
  /\ \E i, j \in 1..Len(ab) :
       DepthOf(i) >= 1 /\ i < j /\ ab[i].nodes > ab[j].nodes

SameElements(s, t) ==
  /\ Len(s) = Len(t)
  /\ \A i \in 1..Len(s) :
       Cardinality({j \in 1..Len(s) : s[j] = s[i]})
         = Cardinality({j \in 1..Len(t) : t[j] = s[i]})

\* s without its i-th element.
Without(s, i) == SubSeq(s, 1, i - 1) \o SubSeq(s, i + 1, Len(s))

\* C8: _order_moves gives a permutation of its input and _with_pv_hint a
\* permutation of that; a null hint or one matching no move leaves the list
\* as it is, a matching hint comes to the front with the other moves in
\* their order.
C8_Permutation ==
  ret.op = "order" =>
    LET hits == {i \in 1..Len(ret.ordered) : ret.ordered[i] = ret.pv_hint}
    IN /\ SameElements(ret.ordered, ret.moves)
       /\ SameElements(ret.hinted, ret.moves)
       /\ hits = {} => ret.hinted = ret.ordered
       /\ hits # {} =>
            LET i == CHOOSE h \in hits : \A g \in hits : h <= g
            IN ret.hinted = <<ret.ordered[i]>> \o Without(ret.ordered, i)

\* A hint that matches a move behind the front of a list with a repeated
\* move.
C8_Witness ==
  /\ ret.op = "order"
  /\ ret.pv_hint # NoMove
  /\ \E i \in 2..Len(ret.ordered) : ret.ordered[i] = ret.pv_hint
  /\ ret.ordered[1] # ret.pv_hint
  /\ ret.ordered # ret.moves
  /\ \E i, j \in 1..Len(ret.moves) : i # j /\ ret.moves[i] = ret.moves[j]

\* C9 as stated: a root search with depth <= 0 on a position with a legal
\* move reports evaluate(position) as its best value.
C9_RootLeafValue ==
  HasLegal =>
    /\ \A k \in 1..Len(mm) : DepthOf(k) <= 0 => mm[k].best_val = evaluate(board)
    /\ \A k \in 1..Len(ab) : DepthOf(k) <= 0 => ab[k].best_val = evaluate(board)

\* The leaf value of the position a root move leads to.
LeafValueAfter(mv) ==
  LET b2 == make(clone(board), mv)
  IN IF legal_moves(b2) = <<>> THEN _terminal_score(b2) ELSE evaluate(b2)

\* C9 amended: a root search with depth <= 0 on a position with a legal
\* move returns what the same search returns at depth 1: it visits one node
\* per legal move and its best value is the best, for the side to move, of
\* the leaf values of the positions the legal moves lead to.
C9_LikeDepthOne ==
  HasLegal =>
    LET legal == legal_moves(board)
        leaf == [i \in 1..Len(legal) |-> LeafValueAfter(legal[i])]
        bestLeaf(r) ==
          /\ \E i \in 1..Len(legal) : r.best_val = leaf[i]
          /\ \A i \in 1..Len(legal) : AsGoodAs(r.best_val, leaf[i])
          /\ r.nodes = Len(legal)
    IN /\ \A k \in 1..Len(mm) :
            DepthOf(k) <= 0 =>
              /\ bestLeaf(mm[k])
              /\ \A j \in 1..Len(mm) : DepthOf(j) = 1 => mm[k] = mm[j]
       /\ \A k \in 1..Len(ab) :
            DepthOf(k) <= 0 =>
              /\ bestLeaf(ab[k])
              /\ \A j \in 1..Len(ab) : DepthOf(j) = 1 => ab[k] = ab[j]

\* Both searches have run below depth 1 and at depth 1, and the value they
\* report below depth 1 is not evaluate(position).
C9_Witness ==
  /\ HasLegal
  /\ \E k \in 1..Len(mm) : DepthOf(k) = 1
  /\ \E k \in 1..Len(ab) : DepthOf(k) = 1
  /\ mm[1].best_val # evaluate(board)
  /\ ab[1].best_val # evaluate(board)

AsHint(mv) == [src |-> mv.src, dst |-> mv.dst, promo |-> mv.promo]
Found == SelectSeq(gen.iters, LAMBDA it : it.best # NoMove)

====
